---- MODULE Spec2Model ----
(***************************************************************************)
(* Model of src/audio/devices.cpp (qTox): the Device value class, the      *)
(* create() factory and the StreamContext stream life cycle over the       *)
(* RtAudio engine.                                                         *)
(*                                                                         *)
(* The RtAudio engine is external to the file.  It is modelled by what     *)
(* the file reads back from it: a device list (getDeviceCount /            *)
(* getDeviceInfo) and the two stream flags isStreamOpen / isStreamRunning. *)
(* A native openStream / startStream / stopStream request may or may not   *)
(* reach the requested state; the outcome is an input of the action.       *)
(***************************************************************************)
EXTENDS Integers, Sequences, FiniteSets, TLC

VARIABLES
    devices,      \* the engine's device list: Seq of RtAudio::DeviceInfo
    ctx,          \* StreamContext::Private of the context under observation
    life,         \* "none" (not created), "alive", "destroyed"
    audio,        \* d->audio: [open, running] as the engine reports them
    allocated,    \* heap: the StreamParameters blocks still allocated
    lastOp,       \* the last call made: its name, argument, result, the
                  \* native calls it issued and the stream flags before it
    prevOp,       \* name and result of the call before the last one
    everStarted,  \* start() has been called on the context
    liveStart,    \* some start() returned true; no stop()/close() call since
    liveStartOk   \* some start() returned true; no stop() that returned
                  \* true and no close() since

vars == <<devices, ctx, life, audio, allocated, lastOp, prevOp,
          everStarted, liveStart, liveStartOk>>

-----------------------------------------------------------------------------
(* Bounds and input domains *)

MaxDevices == 2

nullptr == [isNull |-> TRUE]

\* channel counts a device may report (none, mono, stereo, surround)
ChannelCounts == {0, 1, 2, 6}

\* QString arguments of find(), as sequences of UTF-16 code units:
\* "a", "b", "e-acute"
QNames == {<<97>>, <<98>>, <<233>>}

\* std::string device names, as byte sequences: "a", "e-acute" in UTF-8,
\* "e-acute" in Latin-1
DeviceNames == {<<97>>, <<195, 169>>, <<233>>}

SeqUpTo(S, n) == UNION {[1..k -> S] : k \in 0..n}

DeviceInfo(n, ic, oc, di, do) ==
    [name |-> n, inputChannels |-> ic, outputChannels |-> oc,
     isDefaultInput |-> di, isDefaultOutput |-> do]

\* device lists that differ in the names and the default flags
NamedDevices ==
    {DeviceInfo(n, 2, 2, di, do) :
        n \in DeviceNames, di \in BOOLEAN, do \in BOOLEAN}

\* device lists that differ in the channel counts
ChannelDevices ==
    {DeviceInfo(<<97>>, ic, oc, FALSE, FALSE) :
        ic \in ChannelCounts, oc \in ChannelCounts}

\* a microphone and a pair of speakers
StreamDevices ==
    <<DeviceInfo(<<97>>, 1, 0, TRUE, FALSE),
      DeviceInfo(<<98>>, 0, 2, FALSE, TRUE)>>

\* the device indices a caller passes to create(): valid indices and
\* negative ones ("no device")
DeviceArgs == {-2, -1} \cup (0 .. Len(devices) - 1)

-----------------------------------------------------------------------------
(* The engine, as the file observes it *)

getDeviceCount(devs) == Len(devs)

getDeviceInfo(devs, devId) == devs[devId + 1]

isStreamOpen(a) == a.open

isStreamRunning(a) == a.running

openStream(a, ok) == IF a.open THEN a ELSE [a EXCEPT !.open = ok]

closeStream(a) == [open |-> FALSE, running |-> FALSE]

startStream(a, ok) ==
    IF ~a.open \/ a.running THEN a ELSE [a EXCEPT !.running = ok]

stopStream(a, ok) ==
    IF ~a.running THEN a ELSE [a EXCEPT !.running = ~ok]

-----------------------------------------------------------------------------
(* Device *)

\* QString::toStdString: UTF-8 encoding of the UTF-16 code units
Utf8(c) ==
    IF c < 128 THEN <<c>>
    ELSE IF c < 2048 THEN <<192 + (c \div 64), 128 + (c % 64)>>
    ELSE <<224 + (c \div 4096), 128 + ((c \div 64) % 64), 128 + (c % 64)>>

RECURSIVE toStdString(_)
toStdString(q) ==
    IF q = <<>> THEN <<>> ELSE Utf8(Head(q)) \o toStdString(Tail(q))

RECURSIVE findFromLast(_, _, _)
findFromLast(devs, name, i) ==
    IF i >= getDeviceCount(devs) THEN -1
    ELSE LET r == findFromLast(devs, name, i + 1)
         IN  IF r # -1 THEN r
             ELSE IF name = getDeviceInfo(devs, i).name THEN i ELSE -1

\* the loop of Device::find from index i on
RECURSIVE findFrom(_, _, _)
findFrom(devs, name, i) ==
    IF i >= getDeviceCount(devs) THEN -1
    ELSE IF name = getDeviceInfo(devs, i).name THEN i
    ELSE findFrom(devs, name, i + 1)

find(devs, deviceName) == findFrom(devs, toStdString(deviceName), 0)

availableDevices(devs) == [i \in 1..getDeviceCount(devs) |-> getDeviceInfo(devs, i - 1)]

isDefaultOutput(d) == d.isDefaultOutput

isDefaultInput(d) == d.isDefaultOutput

-----------------------------------------------------------------------------
(* create() *)

\* static_cast<quint32>(int): value-preserving for i >= 0, i + 2^32 below
quint32(i) == IF i >= 0 THEN i ELSE ((i + 2147483647) + 2147483647) + 2

inParamsOf(devs, inputDevice) ==
    IF inputDevice >= 0
    THEN LET devId == quint32(inputDevice)
             info == getDeviceInfo(devs, devId)
         IN  [deviceId |-> devId,
              nChannels |-> IF info.inputChannels > 1 THEN 2 ELSE 1,
              firstChannel |-> 0]
    ELSE nullptr

outParamsOf(devs, outputDevice) ==
    IF outputDevice >= 0
    THEN LET devId == quint32(outputDevice)
             info == getDeviceInfo(devs, devId)
         IN  [deviceId |-> devId,
              nChannels |-> IF info.inputChannels > 1 THEN 2 ELSE 1,
              firstChannel |-> 0]
    ELSE nullptr

Private(inParams, outParams) ==
    [format |-> "RTAUDIO_SINT16", sampleRate |-> 44100, bufferFrames |-> 256,
     inParams |-> inParams, outParams |-> outParams, opts |-> nullptr]

createEither(devs, inputDevice, outputDevice) ==
    IF inputDevice < 0 \/ outputDevice < 0 THEN nullptr
    ELSE Private(inParamsOf(devs, inputDevice), outParamsOf(devs, outputDevice))

create(devs, inputDevice, outputDevice) ==
    IF inputDevice < 0 /\ outputDevice < 0 THEN nullptr
    ELSE Private(inParamsOf(devs, inputDevice), outParamsOf(devs, outputDevice))

\* the blocks create() takes from the heap with new
newParams(inputDevice, outputDevice) ==
    IF inputDevice < 0 /\ outputDevice < 0 THEN {}
    ELSE (IF inputDevice >= 0 THEN {"inParams"} ELSE {})
         \cup (IF outputDevice >= 0 THEN {"outParams"} ELSE {})

-----------------------------------------------------------------------------
(* StreamContext::Private *)

PrivateOpenAlways(a, okOpen) ==
    LET b == openStream(a, okOpen)
    IN  [ret |-> IF isStreamOpen(a) THEN TRUE ELSE isStreamOpen(b),
         audio |-> b, calls |-> <<"openStream">>]

PrivateOpenOptimistic(a, okOpen) ==
    IF isStreamOpen(a)
    THEN [ret |-> TRUE, audio |-> a, calls |-> <<>>]
    ELSE [ret |-> TRUE, audio |-> openStream(a, okOpen),
          calls |-> <<"openStream">>]

PrivateOpen(a, okOpen) ==
    IF isStreamOpen(a)
    THEN [ret |-> TRUE, audio |-> a, calls |-> <<>>]
    ELSE LET b == openStream(a, okOpen)
         IN  [ret |-> isStreamOpen(b), audio |-> b, calls |-> <<"openStream">>]

PrivateCloseAlways(a) ==
    [audio |-> closeStream(a), calls |-> <<"closeStream">>]

PrivateClose(a) ==
    IF ~isStreamOpen(a)
    THEN [audio |-> a, calls |-> <<>>]
    ELSE [audio |-> closeStream(a), calls |-> <<"closeStream">>]

PrivateStartUnchecked(a, okOpen, okStart) ==
    LET o == PrivateOpen(a, okOpen)
        b == startStream(o.audio, okStart)
    IN  [ret |-> isStreamRunning(b), audio |-> b,
         calls |-> o.calls \o <<"startStream">>]

PrivateStart(a, okOpen, okStart) ==
    LET o == PrivateOpen(a, okOpen)
    IN  IF ~o.ret
        THEN [ret |-> FALSE, audio |-> o.audio, calls |-> o.calls]
        ELSE LET b == startStream(o.audio, okStart)
             IN  [ret |-> isStreamRunning(b), audio |-> b,
                  calls |-> o.calls \o <<"startStream">>]

PrivateStopAlways(a, okStop) ==
    LET b == stopStream(a, okStop)
    IN  [ret |-> ~isStreamRunning(b), audio |-> b, calls |-> <<"stopStream">>]

PrivateStop(a, okStop) ==
    IF ~isStreamRunning(a)
    THEN [ret |-> TRUE, audio |-> a, calls |-> <<>>]
    ELSE LET b == stopStream(a, okStop)
         IN  [ret |-> ~isStreamRunning(b), audio |-> b,
              calls |-> <<"stopStream">>]

isOpen == isStreamOpen(audio)

isRunning == isStreamRunning(audio)

-----------------------------------------------------------------------------
(* Bookkeeping of the calls made *)

\* ret: the boolean returned (FALSE for a void call); index: the index
\* returned by find(), -1 otherwise; obj: the context returned by create(),
\* nullptr otherwise
Call(op, arg, ret, index, obj, calls) ==
    [op |-> op, arg |-> arg, ret |-> ret, index |-> index, obj |-> obj,
     calls |-> calls, wasOpen |-> audio.open, wasRunning |-> audio.running]

Before == [op |-> lastOp.op, ret |-> lastOp.ret]

InitCommon ==
    /\ ctx = nullptr
    /\ life = "none"
    /\ audio = [open |-> FALSE, running |-> FALSE]
    /\ allocated = {}
    /\ lastOp = [op |-> "none", arg |-> <<>>, ret |-> FALSE, index |-> -1,
                 obj |-> nullptr, calls |-> <<>>,
                 wasOpen |-> FALSE, wasRunning |-> FALSE]
    /\ prevOp = [op |-> "none", ret |-> FALSE]
    /\ everStarted = FALSE
    /\ liveStart = FALSE
    /\ liveStartOk = FALSE

-----------------------------------------------------------------------------
(* Actions *)

Find ==
    \E q \in QNames :
        /\ lastOp' = Call("find", q, FALSE, find(devices, q), nullptr, <<>>)
        /\ prevOp' = Before
        /\ UNCHANGED <<devices, ctx, life, audio, allocated,
                       everStarted, liveStart, liveStartOk>>

IsDefaultInput ==
    \E i \in 0 .. Len(devices) - 1 :
        /\ lastOp' = Call("isDefaultInput", <<i>>,
                          isDefaultInput(availableDevices(devices)[i + 1]),
                          -1, nullptr, <<>>)
        /\ prevOp' = Before
        /\ UNCHANGED <<devices, ctx, life, audio, allocated,
                       everStarted, liveStart, liveStartOk>>

IsDefaultOutput ==
    \E i \in 0 .. Len(devices) - 1 :
        /\ lastOp' = Call("isDefaultOutput", <<i>>,
                          isDefaultOutput(availableDevices(devices)[i + 1]),
                          -1, nullptr, <<>>)
        /\ prevOp' = Before
        /\ UNCHANGED <<devices, ctx, life, audio, allocated,
                       everStarted, liveStart, liveStartOk>>

\* one context is followed from its creation to its destruction; a create()
\* that returned the null context may be repeated
Create ==
    /\ life = "none"
    /\ \E i \in DeviceArgs, o \in DeviceArgs :
        LET p == create(devices, i, o)
        IN  /\ ctx' = p
            /\ life' = IF p = nullptr THEN "none" ELSE "alive"
            /\ allocated' = allocated \cup newParams(i, o)
            /\ lastOp' = Call("create", <<i, o>>, p # nullptr, -1, p, <<>>)
    /\ prevOp' = Before
    /\ UNCHANGED <<devices, audio, everStarted, liveStart, liveStartOk>>

Open ==
    /\ life = "alive"
    /\ \E okOpen \in BOOLEAN :
        LET r == PrivateOpen(audio, okOpen)
        IN  /\ audio' = r.audio
            /\ lastOp' = Call("open", <<>>, r.ret, -1, nullptr, r.calls)
    /\ prevOp' = Before
    /\ UNCHANGED <<devices, ctx, life, allocated,
                   everStarted, liveStart, liveStartOk>>

Close ==
    /\ life = "alive"
    /\ LET r == PrivateClose(audio)
       IN  /\ audio' = r.audio
           /\ lastOp' = Call("close", <<>>, FALSE, -1, nullptr, r.calls)
    /\ prevOp' = Before
    /\ liveStart' = FALSE
    /\ liveStartOk' = FALSE
    /\ UNCHANGED <<devices, ctx, life, allocated, everStarted>>

Start ==
    /\ life = "alive"
    /\ \E okOpen \in BOOLEAN, okStart \in BOOLEAN :
        LET r == PrivateStart(audio, okOpen, okStart)
        IN  /\ audio' = r.audio
            /\ lastOp' = Call("start", <<>>, r.ret, -1, nullptr, r.calls)
            /\ liveStart' = (liveStart \/ r.ret)
            /\ liveStartOk' = (liveStartOk \/ r.ret)
    /\ prevOp' = Before
    /\ everStarted' = TRUE
    /\ UNCHANGED <<devices, ctx, life, allocated>>

Stop ==
    /\ life = "alive"
    /\ \E okStop \in BOOLEAN :
        LET r == PrivateStop(audio, okStop)
        IN  /\ audio' = r.audio
            /\ lastOp' = Call("stop", <<>>, r.ret, -1, nullptr, r.calls)
            /\ liveStartOk' = (liveStartOk /\ ~r.ret)
    /\ prevOp' = Before
    /\ liveStart' = FALSE
    /\ UNCHANGED <<devices, ctx, life, allocated, everStarted>>

\* the last reference to the context is dropped: the members of Private are
\* destroyed (the RtAudio member closes its stream); the class has no
\* destructor of its own and its raw pointers are not deleted
Destroy ==
    /\ life = "alive"
    /\ life' = "destroyed"
    /\ ctx' = nullptr
    /\ audio' = closeStream(audio)
    /\ lastOp' = Call("destroy", <<>>, FALSE, -1, nullptr, <<>>)
    /\ prevOp' = Before
    /\ liveStart' = FALSE
    /\ liveStartOk' = FALSE
    /\ UNCHANGED <<devices, allocated, everStarted>>

-----------------------------------------------------------------------------
(* Specifications *)

\* the stream life cycle of one context
Init == devices = StreamDevices /\ InitCommon

Next == Create \/ Open \/ Close \/ Start \/ Stop \/ Destroy

Spec == Init /\ [][Next]_vars

\* the Device queries over every device list
InitDevice == devices \in SeqUpTo(NamedDevices, MaxDevices) /\ InitCommon

NextDevice == Find \/ IsDefaultInput \/ IsDefaultOutput

SpecDevice == InitDevice /\ [][NextDevice]_vars

\* create() over every device list
InitCreate == devices \in SeqUpTo(ChannelDevices, MaxDevices) /\ InitCommon

NextCreate == Create

SpecCreate == InitCreate /\ [][NextCreate]_vars

-----------------------------------------------------------------------------
(* Claims *)

CreateArgIn == lastOp.arg[1]

CreateArgOut == lastOp.arg[2]

\* C1: create(inputDevice, outputDevice) returns the null context exactly
\* when both indices are negative; with exactly one index non-negative the
\* context is non-null, has parameters for that direction only, and the
\* stored device id is the given index.
C1_CreateNullIffBothNegative ==
    lastOp.op = "create" =>
        /\ (lastOp.obj = nullptr) <=> (CreateArgIn < 0 /\ CreateArgOut < 0)
        /\ (CreateArgIn >= 0 /\ CreateArgOut < 0) =>
              /\ lastOp.obj # nullptr
              /\ lastOp.obj.inParams # nullptr
              /\ lastOp.obj.outParams = nullptr
              /\ lastOp.obj.inParams.deviceId = CreateArgIn
        /\ (CreateArgIn < 0 /\ CreateArgOut >= 0) =>
              /\ lastOp.obj # nullptr
              /\ lastOp.obj.outParams # nullptr
              /\ lastOp.obj.inParams = nullptr
              /\ lastOp.obj.outParams.deviceId = CreateArgOut

C1_Witness ==
    /\ lastOp.op = "create"
    /\ CreateArgIn = -1
    /\ CreateArgOut = 1
    /\ lastOp.obj # nullptr
    /\ prevOp.op = "create"
    /\ prevOp.ret = FALSE

\* C2 (as stated): whenever open() is called twice in a row, the second call
\* returns true and does not invoke the native openStream.
C2_SecondOpenAlwaysTrue ==
    (prevOp.op = "open" /\ lastOp.op = "open") =>
        (lastOp.ret = TRUE /\ lastOp.calls = <<>>)

\* C2 (amended): when open() is called twice in a row and the first call
\* returned true, the second call returns true and does not invoke the native
\* openStream.
C2_SecondOpenAfterSuccess ==
    (prevOp.op = "open" /\ prevOp.ret = TRUE /\ lastOp.op = "open") =>
        (lastOp.ret = TRUE /\ lastOp.calls = <<>>)

C2_Witness ==
    /\ prevOp.op = "open"
    /\ prevOp.ret = TRUE
    /\ lastOp.op = "open"
    /\ lastOp.wasOpen

\* C3 (as stated): start() on a context whose stream is not open invokes the
\* native open and then the native start; isRunning() is true only if some
\* start() returned true with no later stop() or close(); isRunning() is
\* false right after a stop() returns.
C3_StartOpensThenStarts ==
    /\ (lastOp.op = "start" /\ ~lastOp.wasOpen) =>
          lastOp.calls = <<"openStream", "startStream">>
    /\ isRunning => liveStart
    /\ lastOp.op = "stop" => ~isRunning

\* C3 (amended): start() on a context whose stream is not open invokes the
\* native open and, if that leaves the stream open, then the native start;
\* isRunning() is true only if some start() returned true with no later
\* close() and no later stop() that returned true; isRunning() is false
\* right after a stop() that returned true.
C3_StartOpensThenStartsIfOpen ==
    /\ (lastOp.op = "start" /\ ~lastOp.wasOpen) =>
          lastOp.calls = IF isOpen THEN <<"openStream", "startStream">>
                                   ELSE <<"openStream">>
    /\ isRunning => liveStartOk
    /\ (lastOp.op = "stop" /\ lastOp.ret = TRUE) => ~isRunning

C3_Witness ==
    /\ lastOp.op = "stop"
    /\ lastOp.ret = TRUE
    /\ lastOp.calls = <<"stopStream">>
    /\ prevOp.op = "start"
    /\ prevOp.ret = TRUE
    /\ ~isRunning

\* C4: stop() on a context on which start() was never called returns true,
\* issues no native call and leaves the open/running state as it was.
C4_StopBeforeStartIsNoop ==
    (lastOp.op = "stop" /\ ~everStarted) =>
        /\ lastOp.ret = TRUE
        /\ lastOp.calls = <<>>
        /\ isOpen = lastOp.wasOpen
        /\ isRunning = lastOp.wasRunning

C4_Witness ==
    /\ lastOp.op = "stop"
    /\ ~everStarted
    /\ prevOp.op = "open"
    /\ isOpen

\* C5: close() on a stream that is not open invokes no closeStream and
\* changes nothing; on an open stream it invokes closeStream exactly once
\* and isOpen() is false afterwards; a second close() in a row does nothing.
C5_CloseIdempotent ==
    lastOp.op = "close" =>
        /\ ~lastOp.wasOpen =>
              /\ lastOp.calls = <<>>
              /\ isOpen = lastOp.wasOpen
              /\ isRunning = lastOp.wasRunning
        /\ lastOp.wasOpen =>
              /\ lastOp.calls = <<"closeStream">>
              /\ ~isOpen
        /\ prevOp.op = "close" =>
              /\ lastOp.calls = <<>>
              /\ ~lastOp.wasOpen
              /\ ~isOpen

C5_Witness ==
    /\ lastOp.op = "close"
    /\ lastOp.wasOpen
    /\ lastOp.wasRunning
    /\ lastOp.calls = <<"closeStream">>
    /\ ~isOpen

\* C6: the input parameters get 2 channels if the input device reports more
\* than one input channel and 1 otherwise; the output parameters get 2
\* channels if the output device reports more than one output channel and 1
\* otherwise.
C6_ChannelsPerDirection ==
    (lastOp.op = "create" /\ lastOp.obj # nullptr) =>
        /\ lastOp.obj.inParams # nullptr =>
              lastOp.obj.inParams.nChannels =
                  IF devices[CreateArgIn + 1].inputChannels > 1 THEN 2 ELSE 1
        /\ lastOp.obj.outParams # nullptr =>
              lastOp.obj.outParams.nChannels =
                  IF devices[CreateArgOut + 1].outputChannels > 1 THEN 2 ELSE 1

\* the devices whose name is the UTF-8 form of the last find() argument
Matches ==
    {i \in 0 .. Len(devices) - 1 : devices[i + 1].name = toStdString(lastOp.arg)}

\* C7: Device::find(name) returns -1 when no device of the list has exactly
\* that name, and otherwise the smallest index of a device with that name.
C7_FindFirstMatch ==
    lastOp.op = "find" =>
        /\ (Matches = {}) => lastOp.index = -1
        /\ (Matches # {}) =>
              /\ lastOp.index \in Matches
              /\ \A j \in Matches : lastOp.index <= j

C7_Witness ==
    /\ lastOp.op = "find"
    /\ Matches = {0, 1}
    /\ lastOp.index = 0

\* C8: isDefaultInput() is true exactly when the engine reports the device
\* as the default input device, isDefaultOutput() exactly when it reports it
\* as the default output device.
C8_DefaultFlags ==
    /\ lastOp.op = "isDefaultInput" =>
          lastOp.ret = devices[lastOp.arg[1] + 1].isDefaultInput
    /\ lastOp.op = "isDefaultOutput" =>
          lastOp.ret = devices[lastOp.arg[1] + 1].isDefaultOutput

\* C9: once the context is destroyed, no parameter structure allocated for
\* it by create() remains allocated and its stream is not open.
C9_DestroyReleasesAll ==
    life = "destroyed" => (allocated = {} /\ ~isOpen)

\* C10: engine failures surface as a false return.  A failed native open
\* makes open() and start() return false, start() does not request
\* startStream, and the stream stays closed and not running; a failed native
\* start makes start() return false with the stream left open; a failed
\* native stop makes stop() return false.  The result of open() is isOpen(),
\* of start() isRunning(), of stop() the negation of isRunning().
C10_FailuresReturnFalse ==
    /\ lastOp.op = "open" =>
          /\ lastOp.ret = isOpen
          /\ (lastOp.calls = <<"openStream">> /\ ~isOpen) => lastOp.ret = FALSE
    /\ lastOp.op = "start" =>
          /\ lastOp.ret = isRunning
          /\ ~isOpen =>
                /\ lastOp.ret = FALSE
                /\ lastOp.calls = <<"openStream">>
                /\ ~isRunning
          /\ (isOpen /\ ~isRunning) =>
                /\ lastOp.ret = FALSE
                /\ lastOp.calls[Len(lastOp.calls)] = "startStream"
    /\ lastOp.op = "stop" =>
          /\ lastOp.ret = ~isRunning
          /\ (lastOp.calls = <<"stopStream">> /\ isRunning) => lastOp.ret = FALSE

C10_Witness ==
    /\ lastOp.op = "start"
    /\ lastOp.calls = <<"openStream">>
    /\ lastOp.ret = FALSE
    /\ ~isOpen
    /\ ~isRunning
    /\ prevOp.op = "open"
    /\ prevOp.ret = FALSE

====
